---- MODULE Spec2Model ----
(***************************************************************************)
(* The plan -> draft -> evaluate -> commit workflow of src/src/main.py     *)
(* (run_workflow and the four phase functions it drives).                  *)
(*                                                                         *)
(* Conventions.                                                            *)
(*  - A Python str is a sequence of one-character strings, so len() is Len *)
(*    and `" " in s` is a search for the character " ".                    *)
(*  - An Optional[T] value is a sequence of at most one T: None is <<>>,   *)
(*    a present value v is <<v>>.                                          *)
(*  - A formatted message (f-string) is the tuple of its literal and       *)
(*    interpolated pieces, in order.                                       *)
(*  - Each action is one iteration of the while loop of run_workflow.      *)
(***************************************************************************)
EXTENDS Integers, Sequences, FiniteSets, TLC

VARIABLES
    state,          \* the AgentState of the run (main.py:212)
    current_plan,   \* Optional[Plan], local of run_workflow (main.py:213)
    prompt,         \* Optional: what the last run_executor call gave the Drafter
    evaluation,     \* Optional[Evaluation]: the last value of `evaluation` (main.py:238)
    trello,         \* the HTTP requests issued to the tracking system, in order
    result_msg,     \* Optional: the last value of `result_msg` (main.py:259)
    raised,         \* TRUE once an exception has left run_workflow
    exec_result,    \* Optional[ExecutionResult]: the last value of `exec_result` (main.py:226)
    response,       \* Optional: the last value of `response` in run_committer (main.py:188, 202)
    calls,          \* history: how often each phase function was invoked, and outcomes
    rejectLog,      \* history: the critique (Optional) of every rejection, in order
    evalLog         \* history: every run_evaluator call, as [draft, retry_count, ev]

vars == <<state, current_plan, prompt, evaluation, trello, result_msg, raised,
          exec_result, response, calls, rejectLog, evalLog>>

----------------------------------------------------------------------------
(* Bounds of the model *)

\* No history counter is ever pushed past MaxCalls (the code's own budget keeps
\* every counter below it; the cap only matters when the budget logic is broken).
MaxCalls == 6

----------------------------------------------------------------------------
(* Python values *)

None == <<>>
Some(v) == <<v>>
IsNone(o) == Len(o) = 0
Val(o) == o[1]

\* `" " in s`
HasSpace(s) == \E i \in 1..Len(s) : s[i] = " "

\* AgentState.max_retries default
max_retries == 3

\* Identifiers the Drafter may put in TrelloCard.id (Optional[str]): any str
\* is accepted by the type, the empty one included.
IdEmpty      == <<>>
IdShort      == <<"a","b","c","1","2","3">>
IdNine       == <<"a","b","c","1","2","3","4","5","6">>
IdShelleyK   == <<"S","h","e","l","l","e","y"," ","K">>
IdHash       == <<"a","b","c","1","2","3","4","5","6","7">>
IdLongSpace  == <<"S","h","e","l","l","e","y"," ","K","i","m">>
IdStrings == {IdEmpty, IdShort, IdNine, IdShelleyK, IdHash, IdLongSpace}

\* class TrelloCard
TrelloCard(id, tag) ==
    [id |-> id, title |-> "Login bug", description |-> "Login page crashes", tag |-> tag]

\* The cards executor_agent can return (output_type = TrelloCard).
Cards == {TrelloCard(id, "Bug") : id \in {None} \cup {Some(s) : s \in IdStrings}}
            \cup {TrelloCard(None, "Docs")}

\* class Plan; the plans planner_agent can return (output_type = Plan).
Plans == { [steps |-> <<"Update card abc1234567">>, reasoning |-> "card found"],
           [steps |-> <<"Create a new card">>, reasoning |-> "no card found"] }

\* What the tracking system can answer: a status code, the body text, and the
\* shortUrl of the body's JSON.
Responses == { [status_code |-> 200, text |-> "ok",           shortUrl |-> "trello.com/c/1"],
               [status_code |-> 201, text |-> "created",      shortUrl |-> "trello.com/c/2"],
               [status_code |-> 401, text |-> "invalid key",  shortUrl |-> ""],
               [status_code |-> 404, text |-> "not found",    shortUrl |-> ""] }

\* The user query of main()
Query == "Update the login bug."

\* class AgentState, as constructed by AgentState(input_query=user_query)
AgentState(input_query) ==
    [ input_query  |-> input_query,
      current_step |-> "planning",
      scratchpad   |-> <<>>,
      draft_card   |-> None,
      retry_count  |-> 0,
      max_retries  |-> max_retries,
      final_result |-> None ]

HumanHandoff == <<"Human Handoff Required">>

----------------------------------------------------------------------------
(* The phase functions *)

\* run_executor: the prompt handed to executor_agent
run_executor_prompt(st, plan) ==
    [ query     |-> st.input_query,
      steps     |-> plan.steps,
      reasoning |-> plan.reasoning,
      feedback  |-> st.scratchpad ]

\* class ExecutionResult
ExecutionResult(output_data, success, error_message) ==
    [output_data |-> output_data, success |-> success, error_message |-> error_message]

\* class Evaluation
Evaluation(decision, critique) == [decision |-> decision, critique |-> critique]

\* Variant of run_evaluator: the verdict depends on the retry budget (the id
\* rule is waived on the last attempt).
run_evaluatorLastChance(st) ==
    LET draft == st.draft_card IN
    IF IsNone(draft)
    THEN Evaluation("reject", Some(<<"No card was generated.">>))
    ELSE LET id == Val(draft).id IN
         IF ~IsNone(id) /\ Len(Val(id)) > 0 /\ st.retry_count < st.max_retries
              /\ (Len(Val(id)) < 10 \/ HasSpace(Val(id)))
         THEN Evaluation("reject",
                  Some(<<"The ID '", Val(id), "' is invalid. It looks like a name or title. ",
                         "The ID must be the alphanumeric hash found by the Search tool.">>))
         ELSE Evaluation("approve", None)

\* Variant of run_evaluator: the id rule tests the length only, not the space.
run_evaluatorLengthOnly(st) ==
    LET draft == st.draft_card IN
    IF IsNone(draft)
    THEN Evaluation("reject", Some(<<"No card was generated.">>))
    ELSE LET id == Val(draft).id IN
         IF ~IsNone(id) /\ Len(Val(id)) > 0 /\ Len(Val(id)) < 10
         THEN Evaluation("reject",
                  Some(<<"The ID '", Val(id), "' is invalid. It looks like a name or title. ",
                         "The ID must be the alphanumeric hash found by the Search tool.">>))
         ELSE Evaluation("approve", None)

\* run_evaluator. `not draft` is true of None only (a pydantic model is truthy);
\* `if draft.id:` is false of None and of the empty str.
run_evaluator(st) ==
    LET draft == st.draft_card IN
    IF IsNone(draft)
    THEN Evaluation("reject", Some(<<"No card was generated.">>))
    ELSE LET id == Val(draft).id IN
         IF ~IsNone(id) /\ Len(Val(id)) > 0
              /\ (Len(Val(id)) < 10 \/ HasSpace(Val(id)))
         THEN Evaluation("reject",
                  Some(<<"The ID '", Val(id), "' is invalid. It looks like a name or title. ",
                         "The ID must be the alphanumeric hash found by the Search tool.">>))
         ELSE Evaluation("approve", None)

\* run_committer, up to the HTTP call: the request it issues for `card`, None
\* when it returns before issuing one.
run_committer_request(st) ==
    LET card == st.draft_card IN
    IF IsNone(card) THEN None
    ELSE LET c == Val(card) IN
         IF ~IsNone(c.id) /\ Len(Val(c.id)) > 0
         THEN Some([ method |-> "PUT", url |-> <<"https://api.trello.com/1/cards/", Val(c.id)>>,
                     name |-> <<"[", c.tag, "] ", c.title>>, desc |-> c.description,
                     idList |-> None, pos |-> None, action_type |-> "Updated" ])
         ELSE Some([ method |-> "POST", url |-> <<"https://api.trello.com/1/cards">>,
                     name |-> <<"[", c.tag, "] ", c.title>>, desc |-> c.description,
                     idList |-> Some("TRELLO_LIST_ID"), pos |-> Some("top"),
                     action_type |-> "Created" ])

\* run_committer, from the response on: the message it returns.
run_committer_result(request, resp) ==
    IF IsNone(request) THEN <<"Error: No card to commit">>
    ELSE IF resp.status_code = 200
         THEN <<"SUCCESS: ", Val(request).action_type, " card ", resp.shortUrl>>
         ELSE <<"API ERROR: ", resp.text>>

----------------------------------------------------------------------------
(* The branches of run_workflow's loop body *)

\* planning branch
Planned(st) == [st EXCEPT !.current_step = "executing"]

\* Variant of ExecutorSucceeded: the draft goes to "committing" unevaluated.
ExecutorSucceededSkipsEvaluation(st, card) ==
    [st EXCEPT !.draft_card = Some(card), !.current_step = "committing"]

\* Variant of ExecutorSucceeded: a successful draft resets the retry counter.
ExecutorSucceededResets(st, card) ==
    [st EXCEPT !.draft_card = Some(card), !.current_step = "evaluating", !.retry_count = 0]

\* executing branch, exec_result.success
ExecutorSucceeded(st, card) ==
    [st EXCEPT !.draft_card = Some(card), !.current_step = "evaluating"]

\* Variant of ExecutorCrashed: the failure is not counted against the budget.
ExecutorCrashedNoCount(st) ==
    [st EXCEPT !.current_step = IF st.retry_count > st.max_retries THEN "failed" ELSE @]

\* Variant of ExecutorCrashed: the budget test is off by one (>= for >).
ExecutorCrashedOffByOne(st) ==
    LET n == st.retry_count + 1 IN
    [st EXCEPT !.retry_count = n,
               !.current_step = IF n >= st.max_retries THEN "failed" ELSE @]

\* executing branch, not exec_result.success
ExecutorCrashed(st) ==
    LET n == st.retry_count + 1 IN
    [st EXCEPT !.retry_count = n,
               !.current_step = IF n > st.max_retries THEN "failed" ELSE @]

\* Variant of Feedback: a missing critique is recorded as a placeholder entry.
FeedbackPlaceholder(st, ev) ==
    Append(st.scratchpad,
           IF IsNone(ev.critique) THEN <<"No critique provided">> ELSE Val(ev.critique))

\* The scratchpad after a rejection
Feedback(st, ev) ==
    IF IsNone(ev.critique) THEN st.scratchpad ELSE Append(st.scratchpad, Val(ev.critique))

\* Variant of Evaluated: a rejection with budget left moves on to "committing".
EvaluatedCommitsAnyway(st, ev) ==
    IF ev.decision = "approve" \/ st.retry_count + 1 <= st.max_retries
    THEN [st EXCEPT !.current_step = "committing"]
    ELSE [st EXCEPT !.retry_count = @ + 1, !.scratchpad = Feedback(st, ev),
                    !.current_step = "failed", !.final_result = Some(HumanHandoff)]

\* Variant of Evaluated: the exhausted budget fails the run without a final_result.
EvaluatedNoSentinel(st, ev) ==
    IF ev.decision = "approve"
    THEN [st EXCEPT !.current_step = "committing"]
    ELSE [st EXCEPT !.retry_count = @ + 1, !.scratchpad = Feedback(st, ev),
                    !.current_step = IF st.retry_count + 1 > st.max_retries
                                     THEN "failed" ELSE "executing"]

\* Variant of Evaluated: the critique replaces the scratchpad instead of being appended.
EvaluatedOverwrites(st, ev) ==
    IF ev.decision = "approve"
    THEN [st EXCEPT !.current_step = "committing"]
    ELSE LET n  == st.retry_count + 1
             sp == IF IsNone(ev.critique) THEN st.scratchpad ELSE <<Val(ev.critique)>>
         IN IF n > st.max_retries
            THEN [st EXCEPT !.retry_count = n, !.scratchpad = sp,
                            !.current_step = "failed", !.final_result = Some(HumanHandoff)]
            ELSE [st EXCEPT !.retry_count = n, !.scratchpad = sp,
                            !.current_step = "executing"]

\* Variant of Evaluated: a rejection with budget left goes back to "planning".
EvaluatedReplans(st, ev) ==
    IF ev.decision = "approve"
    THEN [st EXCEPT !.current_step = "committing"]
    ELSE LET n == st.retry_count + 1 IN
         IF n > st.max_retries
         THEN [st EXCEPT !.retry_count = n, !.scratchpad = Feedback(st, ev),
                         !.current_step = "failed", !.final_result = Some(HumanHandoff)]
         ELSE [st EXCEPT !.retry_count = n, !.scratchpad = Feedback(st, ev),
                         !.current_step = "planning"]

\* Variant of Evaluated: the budget test is off by one (>= for >).
EvaluatedOffByOne(st, ev) ==
    IF ev.decision = "approve"
    THEN [st EXCEPT !.current_step = "committing"]
    ELSE LET n == st.retry_count + 1 IN
         IF n >= st.max_retries
         THEN [st EXCEPT !.retry_count = n, !.scratchpad = Feedback(st, ev),
                         !.current_step = "failed", !.final_result = Some(HumanHandoff)]
         ELSE [st EXCEPT !.retry_count = n, !.scratchpad = Feedback(st, ev),
                         !.current_step = "executing"]

\* evaluating branch
Evaluated(st, ev) ==
    IF ev.decision = "approve"
    THEN [st EXCEPT !.current_step = "committing"]
    ELSE LET n  == st.retry_count + 1
             sp == Feedback(st, ev)
         IN IF n > st.max_retries
            THEN [st EXCEPT !.retry_count = n, !.scratchpad = sp,
                            !.current_step = "failed", !.final_result = Some(HumanHandoff)]
            ELSE [st EXCEPT !.retry_count = n, !.scratchpad = sp,
                            !.current_step = "executing"]

\* Variant of Committed: an API-error message fails the run.
CommittedFailsOnError(st, msg) ==
    [st EXCEPT !.final_result = Some(msg),
               !.current_step = IF msg[1] = "API ERROR: " THEN "failed" ELSE "done"]

\* Variant of Committed: an API-error message sends the run back to drafting.
CommittedRetriesOnError(st, msg) ==
    [st EXCEPT !.final_result = Some(msg),
               !.current_step = IF msg[1] = "API ERROR: " THEN "executing" ELSE "done"]

\* committing branch
Committed(st, msg) ==
    [st EXCEPT !.final_result = Some(msg), !.current_step = "done"]

\* Variant of Running: the loop goes on after an exception of a phase function.
RunningAfterRaise == state.current_step \notin {"done", "failed"}

\* `while state.current_step not in ["done", "failed"]`, and no exception so far
Running == ~raised /\ state.current_step \notin {"done", "failed"}

----------------------------------------------------------------------------
(* History bookkeeping *)

NoCalls == [planner |-> 0, executor |-> 0, crashes |-> 0, evaluator |-> 0,
            rejections |-> 0, committer |-> 0]

Count(field) == [calls EXCEPT ![field] = @ + 1]

----------------------------------------------------------------------------
(* Actions *)

Init ==
    /\ state = AgentState(Query)
    /\ current_plan = None
    /\ prompt = None
    /\ evaluation = None
    /\ trello = <<>>
    /\ result_msg = None
    /\ raised = FALSE
    /\ exec_result = None
    /\ response = None
    /\ calls = NoCalls
    /\ rejectLog = <<>>
    /\ evalLog = {}

\* planning: run_planner returns a Plan
PlannerReturns ==
    /\ Running /\ state.current_step = "planning"
    /\ calls.planner < MaxCalls
    /\ \E plan \in Plans : current_plan' = Some(plan)
    /\ state' = Planned(state)
    /\ calls' = Count("planner")
    /\ UNCHANGED <<prompt, evaluation, trello, result_msg, raised, exec_result, response,
                   rejectLog, evalLog>>

\* planning: planner_agent.run raises; run_planner and run_workflow do not catch it
PlannerRaises ==
    /\ Running /\ state.current_step = "planning"
    /\ calls.planner < MaxCalls
    /\ raised' = TRUE
    /\ calls' = Count("planner")
    /\ UNCHANGED <<state, current_plan, prompt, evaluation, trello, result_msg,
                   exec_result, response, rejectLog, evalLog>>

\* executing: executor_agent.run returns a card
ExecutorReturns ==
    /\ Running /\ state.current_step = "executing"
    /\ calls.executor < MaxCalls
    /\ IF IsNone(current_plan)
       THEN /\ raised' = TRUE       \* raise ValueError("No Plan!")
            /\ UNCHANGED <<state, prompt, exec_result, calls>>
       ELSE /\ prompt' = Some(run_executor_prompt(state, Val(current_plan)))
            /\ \E card \in Cards :
                 /\ exec_result' = Some(ExecutionResult(Some(card), TRUE, None))
                 /\ state' = ExecutorSucceeded(state, card)
            /\ calls' = Count("executor")
            /\ UNCHANGED raised
    /\ UNCHANGED <<current_plan, evaluation, trello, result_msg, response, rejectLog, evalLog>>

\* executing: executor_agent.run raises, run_executor reports success=False
ExecutorFails ==
    /\ Running /\ state.current_step = "executing"
    /\ calls.executor < MaxCalls
    /\ ~IsNone(current_plan)
    /\ prompt' = Some(run_executor_prompt(state, Val(current_plan)))
    /\ exec_result' = Some(ExecutionResult(None, FALSE, Some("model error")))
    /\ state' = ExecutorCrashed(state)
    /\ calls' = [calls EXCEPT !.executor = @ + 1, !.crashes = @ + 1]
    /\ UNCHANGED <<current_plan, evaluation, trello, result_msg, raised, response,
                   rejectLog, evalLog>>

\* evaluating: the branch taken on the Evaluation ev
Evaluating(ev) ==
    /\ Running /\ state.current_step = "evaluating"
    /\ calls.evaluator < MaxCalls
    /\ evaluation' = Some(ev)
    /\ state' = Evaluated(state, ev)
    /\ calls' = [calls EXCEPT !.evaluator = @ + 1,
                              !.rejections = IF ev.decision = "reject" THEN @ + 1 ELSE @]
    /\ rejectLog' = IF ev.decision = "reject" THEN Append(rejectLog, ev.critique)
                    ELSE rejectLog
    /\ evalLog' = evalLog \cup {[draft |-> state.draft_card,
                                 retry_count |-> state.retry_count, ev |-> ev]}
    /\ UNCHANGED <<current_plan, prompt, trello, result_msg, raised, exec_result, response>>

\* evaluating, with the verdict of run_evaluator
Evaluate == Evaluating(run_evaluator(state))

\* evaluating, with a rejection that carries no critique: class Evaluation
\* allows it (critique defaults to None) and the branch tests for it
\* (main.py:246), though run_evaluator as written always gives a critique.
EvaluateNoCritique == Evaluating(Evaluation("reject", None))

\* committing: run_committer issues its request and the tracking system answers
Commit ==
    /\ Running /\ state.current_step = "committing"
    /\ calls.committer < MaxCalls
    /\ LET request == run_committer_request(state) IN
       /\ trello' = IF IsNone(request) THEN trello ELSE Append(trello, Val(request))
       /\ \E resp \in Responses :
            /\ response' = IF IsNone(request) THEN response ELSE Some(resp)
            /\ result_msg' = Some(run_committer_result(request, resp))
            /\ state' = Committed(state, run_committer_result(request, resp))
    /\ calls' = Count("committer")
    /\ UNCHANGED <<current_plan, prompt, evaluation, raised, exec_result, rejectLog, evalLog>>

Next ==
    \/ PlannerReturns
    \/ PlannerRaises
    \/ ExecutorReturns
    \/ ExecutorFails
    \/ Evaluate
    \/ Commit

Spec == Init /\ [][Next]_vars

\* The loop keeps running: every await resolves and the next iteration is taken.
FairSpec == Spec /\ WF_vars(Next)

\* run_workflow driven by any Evaluator of the Evaluation contract: besides
\* the verdicts of run_evaluator, a rejection may come without a critique.
NextAnyEvaluator == Next \/ EvaluateNoCritique

AnyEvaluatorSpec == Init /\ [][NextAnyEvaluator]_vars

----------------------------------------------------------------------------
(* Properties *)

Terminal == {"done", "failed"}

\* s is an initial segment of t
IsPrefix(s, t) == Len(s) <= Len(t) /\ SubSeq(t, 1, Len(s)) = s

\* The critiques that are present in a log of Optional critiques, in order
RECURSIVE Present(_)
Present(log) ==
    IF log = <<>> THEN <<>>
    ELSE IF IsNone(Head(log)) THEN Present(Tail(log))
         ELSE <<Val(Head(log))>> \o Present(Tail(log))

\* C1: run_committer is invoked at most once per run; it is invoked (and the
\* phase is "committing") only when the most recent Evaluation was "approve"
\* and a draft is stored; it issues at most one request.
C1_SingleCommit ==
    /\ calls.committer <= 1
    /\ Len(trello) <= 1
    /\ (state.current_step = "committing" \/ calls.committer > 0) =>
          /\ ~IsNone(evaluation)
          /\ Val(evaluation).decision = "approve"
          /\ ~IsNone(state.draft_card)

\* C1 witness: the Committer has run, after an earlier rejection in the same run.
C1_Witness == calls.committer = 1 /\ calls.rejections > 0 /\ Len(trello) = 1

\* C2: the number of Drafter invocations of a run never exceeds max_retries + 1.
C2_RetryBudget == calls.executor <= state.max_retries + 1

\* C2 witness: the budget is used in full, ending in "committing" on the last attempt.
C2_Witness ==
    /\ calls.executor = state.max_retries + 1
    /\ state.current_step = "committing"

\* C3: when the Drafter always succeeds and the Evaluator rejects every attempt
\* until the budget is exhausted, the run is in "failed", final_result is the
\* human-handoff sentinel and the Committer was never called.
C3_HumanHandoff ==
    (calls.crashes = 0 /\ calls.rejections = state.max_retries + 1) =>
        /\ state.current_step = "failed"
        /\ state.final_result = Some(HumanHandoff)
        /\ calls.committer = 0
        /\ trello = <<>>

\* C3 witness: max_retries + 1 rejections and no Drafter failure.
C3_Witness ==
    /\ calls.crashes = 0
    /\ calls.rejections = state.max_retries + 1
    /\ calls.executor = state.max_retries + 1

\* C4: in every terminal state final_result is set, to a commit confirmation,
\* an API-error text or the human-handoff sentinel.
C4_FinalResultSet ==
    state.current_step \in Terminal =>
        /\ ~IsNone(state.final_result)
        /\ \/ state.final_result = Some(HumanHandoff)
           \/ Val(state.final_result)[1] \in {"SUCCESS: ", "API ERROR: "}

\* C5: the scratchpad is append-only (each step leaves the old scratchpad as an
\* initial segment of the new one), and in every state it holds exactly the
\* critiques of the rejections so far, in rejection order, so its length is
\* the number of rejections that carried a critique.
C5_ScratchpadAppendOnly ==
    /\ [](/\ state.scratchpad = Present(rejectLog)
          /\ Len(rejectLog) = calls.rejections
          /\ Len(state.scratchpad) =
                Cardinality({i \in 1..Len(rejectLog) : ~IsNone(rejectLog[i])}))
    /\ [][IsPrefix(state.scratchpad, state'.scratchpad)]_vars

\* C5 witness: two different critiques recorded, in the order of their rejections.
C5_Witness ==
    /\ Len(state.scratchpad) >= 2
    /\ state.scratchpad[1] # state.scratchpad[2]
    /\ calls.rejections = Len(state.scratchpad)

\* C6: the Evaluator rejects a draft whose id is present and shorter than 10
\* characters or holding a space, with a critique naming that id, and approves
\* every other draft. (Outside "evaluating" the last Evaluation is the one of
\* the stored draft: the draft only changes on entering "evaluating".)
C6_EvaluatorRule ==
    (state.current_step # "evaluating" /\ ~IsNone(evaluation)) =>
        LET id == Val(state.draft_card).id
            ev == Val(evaluation)
        IN IF ~IsNone(id) /\ (Len(Val(id)) < 10 \/ HasSpace(Val(id)))
           THEN /\ ev.decision = "reject"
                /\ ~IsNone(ev.critique)
                /\ Len(Val(ev.critique)) >= 2
                /\ Val(ev.critique)[2] = Val(id)
           ELSE ev.decision = "approve"

\* C7: for the approved draft the Committer issues exactly one request: a PUT
\* addressed to the draft's id when the id is present, a POST to the default
\* list at position "top" when it is absent.
C7_UpdateOrCreate ==
    state.current_step = "done" =>
        /\ Len(trello) = 1
        /\ LET id == Val(state.draft_card).id
               r  == trello[1]
           IN IF ~IsNone(id)
              THEN /\ r.method = "PUT"
                   /\ r.url = <<"https://api.trello.com/1/cards/", Val(id)>>
              ELSE /\ r.method = "POST"
                   /\ r.url = <<"https://api.trello.com/1/cards">>
                   /\ r.idList = Some("TRELLO_LIST_ID")
                   /\ r.pos = Some("top")

\* C8 as stated: whatever the Planner, Drafter and Evaluator do, the phase
\* eventually reaches "done" or "failed".
C8_AlwaysTerminates == <>(state.current_step \in Terminal)

\* C8 amended: once the Planner has returned a Plan the phase eventually
\* reaches "done" or "failed"; a Planner failure leaves run_workflow as an
\* exception with the phase still "planning" and nothing else done; "done" and
\* "failed" have no outgoing transition.
C8_TerminatesAfterPlan ==
    /\ (~IsNone(current_plan)) ~> (state.current_step \in Terminal)
    /\ <>(raised \/ state.current_step \in Terminal)
    /\ [](raised => /\ state.current_step = "planning"
                    /\ IsNone(current_plan)
                    /\ calls = [NoCalls EXCEPT !.planner = 1])
    /\ [][state.current_step \in Terminal => state' = state]_vars

\* C8 witness: a run that reached "failed" through Drafter failures and rejections.
C8_Witness ==
    /\ state.current_step = "failed"
    /\ calls.crashes > 0
    /\ calls.rejections > 0

\* C9: the Planner is invoked exactly once, before any Drafter call; the phase
\* never returns to "planning"; the Plan never changes once stored and every
\* Drafter invocation is given that Plan.
C9_PlanOnce ==
    /\ [](/\ calls.planner <= 1
          /\ (state.current_step # "planning" => calls.planner = 1 /\ ~IsNone(current_plan))
          /\ (calls.executor > 0 => calls.planner = 1)
          /\ (~IsNone(prompt) =>
                /\ ~IsNone(current_plan)
                /\ Val(prompt).steps = Val(current_plan).steps
                /\ Val(prompt).reasoning = Val(current_plan).reasoning))
    /\ [][/\ (state'.current_step = "planning" => state.current_step = "planning")
          /\ (~IsNone(current_plan) => current_plan' = current_plan)]_vars

\* C9 witness: the Drafter was re-invoked after a rejection and after a failure.
C9_Witness ==
    /\ calls.executor >= 3
    /\ calls.rejections >= 1
    /\ calls.crashes >= 1
    /\ ~IsNone(prompt)

\* C10: the step taken in "committing" ends in "done" with final_result the
\* message run_committer returned, leaves retry_count and scratchpad alone, and
\* is the only Committer call of the run; "committing" is never followed by
\* "failed", and the Committer is not called again.
C10_CommitEndsRun ==
    /\ [][state.current_step = "committing" /\ vars' # vars =>
            /\ state'.current_step = "done"
            /\ ~IsNone(result_msg')
            /\ state'.final_result = result_msg'
            /\ Val(result_msg')[1] \in {"SUCCESS: ", "API ERROR: "}
            /\ state'.retry_count = state.retry_count
            /\ state'.scratchpad = state.scratchpad
            /\ calls'.committer = 1]_vars
    /\ [](state.current_step = "done" =>
            /\ calls.committer = 1
            /\ state.final_result = result_msg)

\* C10 witness: a run that is "done" with an API-error text as final_result.
C10_Witness ==
    /\ state.current_step = "done"
    /\ ~IsNone(state.final_result)
    /\ Val(state.final_result)[1] = "API ERROR: "

\* C11: a Planner failure is fatal and not retried: once the Planner has
\* failed it was called exactly once, no Drafter, Evaluator or Committer call
\* and no request has been made, retry_count is still 0, and nothing more
\* happens in the run.
C11_PlannerFailureFatal ==
    /\ [](raised =>
            /\ calls = [NoCalls EXCEPT !.planner = 1]
            /\ state = AgentState(Query)
            /\ state.retry_count = 0
            /\ IsNone(current_plan) /\ IsNone(prompt) /\ IsNone(evaluation)
            /\ trello = <<>>)
    /\ [][raised => vars' = vars]_vars

\* C11 witness: the Planner has failed.
C11_Witness == raised /\ calls.planner = 1

\* C12: while the phase is "planning", "executing" or "evaluating" no commit
\* call and no request has been issued; once the Committer has been called, no
\* Planner, Drafter or Evaluator call is made.
C12_CommitLast ==
    /\ [](state.current_step \in {"planning", "executing", "evaluating"} =>
            /\ calls.committer = 0
            /\ trello = <<>>
            /\ IsNone(response) /\ IsNone(result_msg))
    /\ [][calls.committer > 0 =>
            /\ calls'.planner = calls.planner
            /\ calls'.executor = calls.executor
            /\ calls'.evaluator = calls.evaluator]_vars

\* C12 witness: the commit call was made, after several drafting attempts.
C12_Witness ==
    /\ calls.committer = 1
    /\ Len(trello) = 1
    /\ calls.executor >= 2
    /\ state.current_step = "done"

Transitions ==
    { <<"planning", "executing">>,
      <<"executing", "evaluating">>, <<"executing", "executing">>, <<"executing", "failed">>,
      <<"evaluating", "committing">>, <<"evaluating", "executing">>, <<"evaluating", "failed">>,
      <<"committing", "done">> }

InTable(from, to) == <<from, to>> \in Transitions

\* C14: every step that changes the phase takes it along one of the
\* transitions of the table, and a step that changes the state record without
\* changing the phase is the retried Drafter failure in "executing".
C14_TransitionTable ==
    [][/\ state'.current_step # state.current_step =>
             InTable(state.current_step, state'.current_step)
       /\ (state' # state /\ state'.current_step = state.current_step) =>
             state.current_step = "executing"]_vars

\* C14 witness: a run that is "done" after a Drafter failure and a rejection,
\* having taken every transition that does not lead to "failed".
C14_Witness ==
    /\ state.current_step = "done"
    /\ calls.crashes >= 1
    /\ calls.rejections >= 1

\* C15: a Drafter failure happens in "executing" and raises retry_count by
\* exactly 1; the phase becomes "failed" when the new retry_count exceeds
\* max_retries and stays "executing" otherwise; draft_card, scratchpad and
\* final_result are unchanged, final_result being unset.
C15_DrafterFailure ==
    [][calls'.crashes # calls.crashes =>
          /\ state.current_step = "executing"
          /\ ~Val(exec_result').success
          /\ state'.retry_count = state.retry_count + 1
          /\ state'.current_step = IF state'.retry_count > state.max_retries
                                   THEN "failed" ELSE "executing"
          /\ state'.draft_card = state.draft_card
          /\ state'.scratchpad = state.scratchpad
          /\ state'.final_result = state.final_result
          /\ IsNone(state'.final_result)]_vars

\* C15 witness: the run failed on a Drafter failure, with an earlier draft
\* still stored and critiques in the scratchpad.
C15_Witness ==
    /\ state.current_step = "failed"
    /\ ~IsNone(exec_result) /\ ~Val(exec_result).success
    /\ ~IsNone(state.draft_card)
    /\ Len(state.scratchpad) >= 1
    /\ IsNone(state.final_result)

\* C16: a rejection happens in "evaluating" and raises retry_count by exactly
\* 1; its critique, if present, becomes the last scratchpad entry (the earlier
\* entries kept), and an absent critique leaves the scratchpad alone; the phase
\* becomes "failed" with the human-handoff sentinel as final_result when the
\* new retry_count exceeds max_retries, and "executing" with final_result
\* unset otherwise; draft_card is unchanged.
C16_Rejection ==
    [][calls'.rejections # calls.rejections =>
          LET ev == Val(evaluation') IN
          /\ state.current_step = "evaluating"
          /\ ev.decision = "reject"
          /\ state'.retry_count = state.retry_count + 1
          /\ state'.scratchpad = IF IsNone(ev.critique) THEN state.scratchpad
                                 ELSE state.scratchpad \o <<Val(ev.critique)>>
          /\ IF state'.retry_count > state.max_retries
             THEN /\ state'.current_step = "failed"
                  /\ state'.final_result = Some(HumanHandoff)
             ELSE /\ state'.current_step = "executing"
                  /\ IsNone(state'.final_result)
          /\ state'.draft_card = state.draft_card]_vars

\* C16 witness: a rejection with a critique, after earlier ones, sent the run
\* back to "executing" on the last retry the budget allows.
C16_Witness ==
    /\ state.current_step = "executing"
    /\ state.retry_count = state.max_retries
    /\ ~IsNone(evaluation) /\ Val(evaluation).decision = "reject"
    /\ ~IsNone(Val(evaluation).critique)
    /\ Len(state.scratchpad) >= 2
    /\ state.scratchpad[Len(state.scratchpad)] = Val(Val(evaluation).critique)
    /\ Val(exec_result).success

\* A step that is a rejection carrying no critique
NoCritiqueRejection ==
    /\ calls'.rejections # calls.rejections
    /\ IsNone(Val(evaluation').critique)

C18_SuccessOn2xx ==
    (state.current_step = "done" /\ ~IsNone(response)) =>
        LET r   == Val(response)
            msg == Val(result_msg)
        IN IF r.status_code \in 200..299
           THEN /\ msg[1] = "SUCCESS: "
                /\ msg[Len(msg)] = r.shortUrl
           ELSE msg = <<"API ERROR: ", r.text>>

\* C19: in "committing" and "done" the stored draft is present, is the card the
\* most recent Drafter call returned, and is the draft of the most recent
\* evaluation, which approved it; no evaluation of the run rejected it; the
\* Committer never returns "No card to commit"; every PUT it issues is
\* addressed to an id of at least 10 characters without a space.
C19_CommittedDraft ==
    /\ state.current_step \in {"committing", "done"} =>
          /\ ~IsNone(state.draft_card)
          /\ ~IsNone(exec_result) /\ Val(exec_result).success
          /\ Val(exec_result).output_data = state.draft_card
          /\ [draft |-> state.draft_card, retry_count |-> state.retry_count,
              ev |-> Evaluation("approve", None)] \in evalLog
          /\ evaluation = Some(Evaluation("approve", None))
          /\ \A a \in evalLog : a.draft = state.draft_card => a.ev.decision = "approve"
    /\ calls.committer > 0 =>
          /\ result_msg # Some(<<"Error: No card to commit">>)
          /\ Len(trello) = 1
          /\ trello[1].name = <<"[", Val(state.draft_card).tag, "] ", Val(state.draft_card).title>>
    /\ \A i \in 1..Len(trello) :
          trello[i].method = "PUT" =>
              /\ Len(trello[i].url[2]) >= 10
              /\ ~HasSpace(trello[i].url[2])
              /\ Some(trello[i].url[2]) = Val(state.draft_card).id

\* C19 witness: an UPDATE was committed after an earlier draft was rejected
\* and a Drafter call failed while that rejected draft was still stored.
C19_Witness ==
    /\ state.current_step = "done"
    /\ Len(trello) = 1 /\ trello[1].method = "PUT"
    /\ calls.rejections = 1
    /\ calls.crashes >= 1
    /\ \E a, b \in evalLog : /\ a.ev.decision = "reject"
                            /\ b.ev.decision = "approve"
                            /\ a.retry_count + 2 <= b.retry_count

\* C20: retry_count is one shared counter that is never reset: it always
\* equals the Drafter failures plus the Evaluator rejections so far, lies in
\* 0..max_retries + 1 and never decreases; "failed" is only reached with
\* retry_count = max_retries + 1, "committing" and "done" only with
\* retry_count <= max_retries.
C20_SharedRetryCounter ==
    /\ [](/\ state.retry_count = calls.crashes + calls.rejections
          /\ state.retry_count \in 0..(state.max_retries + 1)
          /\ state.max_retries = max_retries
          /\ (state.current_step = "failed" <=> state.retry_count = state.max_retries + 1)
          /\ (state.current_step \in {"committing", "done"} =>
                state.retry_count <= state.max_retries))
    /\ [][state'.retry_count >= state.retry_count]_vars

\* C20 witness: a run that is "done" with the whole retry budget used, by
\* Drafter failures and by rejections.
C20_Witness ==
    /\ state.current_step = "done"
    /\ state.retry_count = state.max_retries
    /\ calls.crashes >= 1
    /\ calls.rejections >= 1

====
